---- MODULE Spec2Model ----
(***************************************************************************)
(* Model of laradru/ia-bigdata:                                            *)
(*   src/src/engine/trainer.py       SupervisedTrainer (train, coco_eval,  *)
(*                                   fit)                                  *)
(*   src/src/dataset/dataset_coco.py CocoDataset.split and the             *)
(*                                   instance-segmentation __getitem__     *)
(* Four specifications share the variables; each one moves only the        *)
(* variables of its own component and leaves the others at their initial   *)
(* value:                                                                  *)
(*   SpecFit    SupervisedTrainer.fit                                      *)
(*   SpecTrain  SupervisedTrainer.train                                    *)
(*   SpecCoco   SupervisedTrainer.coco_eval over a segmentation dataset    *)
(*   SpecSplit  CocoDataset.split followed by mutations of the results     *)
(***************************************************************************)
EXTENDS Integers, Sequences, FiniteSets, TLC

(***************************************************************************)
(* Bounds of the model.                                                    *)
(***************************************************************************)
\* fit: epochs run by one trainer, summed over its fit calls
MaxEpochs == 5
\* fit: the largest ordinary validation loss
MaxLoss == 5
\* fit: the largest coco_eval_frequency
MaxFreq == 2
\* train: the largest sampler.num_samples
MaxSamples == 2
\* train: the largest value of loss_mask in one batch
MaxTermLoss == 4
\* coco_eval: the largest image id, the most images, the most predictions per image
MaxImageId == 3
MaxSegImages == 3
MaxPreds == 2
\* split: the most images and annotations of the source dataset
MaxImages == 3
MaxAnns == 3
\* split: the most percentages, their denominator, and how far a percentage may
\* lie below 0 or above 1 (in units of 1 / PercDen)
MaxParts == 3
PercDen == 4
PercSlack == 2
\* split: the most records mutated after split
MaxMutations == 1

VARIABLES
    \* ---- SupervisedTrainer.fit
    fit_pc,            \* position inside fit
    best_loss,         \* self.best_loss
    epochs,            \* the epochs argument of the running fit call
    freq,              \* kwargs.get("coco_eval_frequency", None): {} is None
    epoch,             \* the loop variable of fit
    loss_validation,   \* loss_validation[self.main_metric] of this epoch
    phases,            \* the phases this epoch has run so far, in order
    saved,             \* epochs of the running fit call at which model.save() ran
    coco_epochs,       \* epochs of the running fit call at which coco_eval ran
    tracked,           \* every tracked value the trainer has compared, in order
    fit_start,         \* Len(tracked) when the running fit call began
    \* ---- SupervisedTrainer.train
    train_pc,          \* position inside train
    total_images,      \* dataset.sampler.num_samples
    batches,           \* the batch sizes the data loader still has to yield
    losses,            \* the loss mapping the model returned for this batch
    loss_train,        \* the running totals
    ops,               \* the calls made for the current batch, in order
    opt_steps,         \* number of optimizer.step() calls so far
    batch_log,         \* the loss mapping of every finished batch, in order
    train_result,      \* what train returned: term -> [num, den]
    \* ---- CocoDatasetInstanceSegmentation and SupervisedTrainer.coco_eval
    seg_pc,            \* "unloaded" until the dataset is constructed
    seg_images,        \* self.images = tree.data["images"]: the image ids, in order
    seg_annotated,     \* the keys of self.annotations (to_dict by image_id)
    coco_pc,           \* position inside coco_eval
    sample_ix,         \* position of the loop over pred_annotations.data["images"]
    pending,           \* the predictions of this image not yet looked at
    annotation_id,     \* the annotation-id counter
    pred_annotations,  \* pred_annotations.data["annotations"]
    infer_log,         \* per inference: the record's id and the id of the image fetched
    pred_log,          \* per prediction looked at: whether its mask had foreground
    \* ---- CocoDatasetClassification and CocoDataset.split
    cls_pc,            \* "unloaded", "loaded", then the outcome of split
    heap,              \* the image and annotation records, by reference
    src,               \* the dataset split is called on
    subsets,           \* what split returned
    percentages,       \* the percentages, as numerators over PercDen
    random,            \* the random argument
    order,             \* all_images after the optional shuffle
    selected,          \* per subset: indexes, the image ids chosen for it
    src_view0,         \* the source's contents when split was called
    sub_view0,         \* the subsets' contents when split returned
    mutated            \* the datasets (0: the source) a record was mutated through

fitVars == <<fit_pc, best_loss, epochs, freq, epoch, loss_validation, phases,
             saved, coco_epochs, tracked, fit_start>>
trainVars == <<train_pc, total_images, batches, losses, loss_train, ops,
               opt_steps, batch_log, train_result>>
cocoVars == <<seg_pc, seg_images, seg_annotated, coco_pc, sample_ix, pending,
              annotation_id, pred_annotations, infer_log, pred_log>>
splitVars == <<cls_pc, heap, src, subsets, percentages, random, order, selected,
               src_view0, sub_view0, mutated>>
vars == <<fitVars, trainVars, cocoVars, splitVars>>
notFit == <<trainVars, cocoVars, splitVars>>
notTrain == <<fitVars, cocoVars, splitVars>>
notCoco == <<fitVars, trainVars, splitVars>>
notSplit == <<fitVars, trainVars, cocoVars>>

(***************************************************************************)
(* Helpers.                                                                *)
(***************************************************************************)
RECURSIVE SetMin(_)
SetMin(S) ==
    LET x == CHOOSE y \in S : TRUE
    IN  IF S = {x} THEN x
        ELSE LET m == SetMin(S \ {x}) IN IF x < m THEN x ELSE m

Range(s) == {s[i] : i \in DOMAIN s}

RECURSIVE SumSeq(_)
SumSeq(s) == IF s = <<>> THEN 0 ELSE Head(s) + SumSeq(Tail(s))

(***************************************************************************)
(* SupervisedTrainer.fit                                                   *)
(*                                                                         *)
(* Losses are floats that fit only compares with "<", so the model keeps   *)
(* (MaxLoss-3)..MaxLoss, and InitialBestLoss is the point standing for 1e20. *)
(* 2..MaxLoss, and InitialBestLoss is the point that stands for 1e20.      *)
(* A diverged validation loss (1e20 or more) is the point InitialBestLoss. *)
(***************************************************************************)
InitialBestLoss == 100

LossValues == ((MaxLoss - 3)..MaxLoss) \cup {InitialBestLoss}

Frequencies == {{}} \cup {{f} : f \in 0..MaxFreq}

FitInit ==
    /\ fit_pc = "idle"
    /\ best_loss = InitialBestLoss
    /\ epochs = 0
    /\ freq = {}
    /\ epoch = 0
    /\ loss_validation = 0
    /\ phases = <<>>
    /\ saved = {}
    /\ coco_epochs = {}
    /\ tracked = <<>>
    /\ fit_start = 0

\* trainer.py:216  coco_eval_frequency is not None and epoch % coco_eval_frequency == 0
CocoEvalDueLate(fr, e) == \E f \in fr : f > 0 /\ (e + 1) % f = 0
CocoEvalDue(fr, e) == \E f \in fr : f > 0 /\ e % f = 0

\* trainer.py:216  epoch % 0 raises ZeroDivisionError
ModuloRaises(fr) == 0 \in fr

\* trainer.py:227  loss_validation[self.main_metric] < self.best_loss
ImprovesOrTies(loss, best) == loss <= best
Improves(loss, best) == loss < best

\* trainer.py:210  for epoch in range(epochs): what follows the body of epoch e
AfterEpoch(e, n) == IF e + 1 < n THEN "train" ELSE "done"

\* A call of fit on the trainer: fit(training_data, validation_data, optimizer, n, **kwargs)
FitCall ==
    /\ fit_pc \in {"idle", "done", "error"}
    /\ \E n \in 0..(MaxEpochs - Len(tracked)), fr \in Frequencies :
        /\ epochs' = n
        /\ freq' = fr
        /\ fit_pc' = IF n > 0 THEN "train" ELSE "done"
    /\ epoch' = 0
    /\ phases' = <<>>
    /\ saved' = {}
    /\ coco_epochs' = {}
    /\ fit_start' = Len(tracked)
    /\ UNCHANGED <<best_loss, loss_validation, tracked>>
    /\ UNCHANGED notFit

\* trainer.py:213  loss_training = self.train(training_data, optimizer)
FitTrain ==
    /\ fit_pc = "train"
    /\ phases' = <<"train">>
    /\ fit_pc' = "evaluate"
    /\ UNCHANGED <<best_loss, epochs, freq, epoch, loss_validation, saved,
                   coco_epochs, tracked, fit_start>>
    /\ UNCHANGED notFit

\* trainer.py:214-216  loss_validation = self.evaluate(validation_data), then the
\* test that decides whether the COCO evaluation runs
FitEvaluate ==
    /\ fit_pc = "evaluate"
    /\ \E v \in LossValues : loss_validation' = v
    /\ phases' = Append(phases, "evaluate")
    /\ fit_pc' = IF ModuloRaises(freq) THEN "error"
                 ELSE IF CocoEvalDue(freq, epoch) THEN "coco_eval"
                 ELSE "checkpoint"
    /\ UNCHANGED <<best_loss, epochs, freq, epoch, saved, coco_epochs, tracked,
                   fit_start>>
    /\ UNCHANGED notFit

\* trainer.py:217  self.coco_eval(validation_data) returns
FitCocoEval ==
    /\ fit_pc = "coco_eval"
    /\ phases' = Append(phases, "coco_eval")
    /\ coco_epochs' = coco_epochs \cup {epoch}
    /\ fit_pc' = "checkpoint"
    /\ UNCHANGED <<best_loss, epochs, freq, epoch, loss_validation, saved,
                   tracked, fit_start>>
    /\ UNCHANGED notFit

\* trainer.py:217  self.coco_eval(validation_data) raises (trainer.py:155): fit ends
FitCocoEvalRaises ==
    /\ fit_pc = "coco_eval"
    /\ phases' = Append(phases, "coco_eval")
    /\ coco_epochs' = coco_epochs \cup {epoch}
    /\ fit_pc' = "error"
    /\ UNCHANGED <<best_loss, epochs, freq, epoch, loss_validation, saved,
                   tracked, fit_start>>
    /\ UNCHANGED notFit

\* trainer.py:226-229  the checkpoint comparison, then the next epoch
FitCheckpoint ==
    /\ fit_pc = "checkpoint"
    /\ phases' = Append(phases, "checkpoint")
    /\ tracked' = Append(tracked, loss_validation)
    /\ IF Improves(loss_validation, best_loss)
       THEN /\ best_loss' = loss_validation
            /\ saved' = saved \cup {epoch}
       ELSE UNCHANGED <<best_loss, saved>>
    /\ fit_pc' = AfterEpoch(epoch, epochs)
    /\ epoch' = IF epoch + 1 < epochs THEN epoch + 1 ELSE epoch
    /\ UNCHANGED <<epochs, freq, loss_validation, coco_epochs, fit_start>>
    /\ UNCHANGED notFit

FitNext ==
    \/ FitCall
    \/ FitTrain
    \/ FitEvaluate
    \/ FitCocoEval
    \/ FitCocoEvalRaises
    \/ FitCheckpoint

(***************************************************************************)
(* SupervisedTrainer.train                                                 *)
(***************************************************************************)
LossNames == {"loss_classifier", "loss_box_reg", "loss_mask", "loss_objectness",
              "loss_rpn_box_reg"}

\* The loss mappings the model collaborator returns for a batch.
LossDicts ==
    {d \in [LossNames -> 0..MaxTermLoss] :
        /\ d["loss_classifier"] \in {0, 2}
        /\ d["loss_objectness"] \in {0, 1}
        /\ d["loss_box_reg"] = 0
        /\ d["loss_rpn_box_reg"] = 0}

\* trainer.py:53-59
ZeroLosses == [k \in LossNames |-> 0]

\* The batches a DataLoader(dataset, batch_size=bs) yields over n samples
\* (dataset_coco.py:52: no drop_last): full batches, then the remainder.
RECURSIVE BatchSizes(_, _)
BatchSizes(n, bs) ==
    IF n = 0 THEN <<>>
    ELSE IF n <= bs THEN <<n>>
    ELSE <<bs>> \o BatchSizes(n - bs, bs)

TrainInit ==
    /\ train_pc = "idle"
    /\ total_images = 0
    /\ batches = <<>>
    /\ losses = ZeroLosses
    /\ loss_train = ZeroLosses
    /\ ops = <<>>
    /\ opt_steps = 0
    /\ batch_log = <<>>
    /\ train_result = <<>>

\* trainer.py:68  for batch in dataset: what follows when b batches are left
NextBatch(b) == IF b = <<>> THEN "return" ELSE "zero_grad"

\* trainer.py:53-65  train is called on a data loader
TrainCall ==
    /\ train_pc = "idle"
    /\ \E n \in 0..MaxSamples, bs \in 1..MaxSamples :
        /\ total_images' = n
        /\ batches' = BatchSizes(n, bs)
        /\ train_pc' = NextBatch(BatchSizes(n, bs))
    /\ loss_train' = ZeroLosses
    /\ ops' = <<>>
    /\ UNCHANGED <<losses, opt_steps, batch_log, train_result>>
    /\ UNCHANGED notTrain

\* trainer.py:74  optimizer.zero_grad()
TrainZeroGrad ==
    /\ train_pc = "zero_grad"
    /\ ops' = <<"zero_grad">>
    /\ train_pc' = "forward"
    /\ UNCHANGED <<total_images, batches, losses, loss_train, opt_steps,
                   batch_log, train_result>>
    /\ UNCHANGED notTrain

\* trainer.py:77  losses = self.model(x_pred, y_true)
TrainForward ==
    /\ train_pc = "forward"
    /\ \E d \in LossDicts : losses' = d
    /\ ops' = Append(ops, "model")
    /\ train_pc' = "backward"
    /\ UNCHANGED <<total_images, batches, loss_train, opt_steps, batch_log,
                   train_result>>
    /\ UNCHANGED notTrain

\* trainer.py:80-81  loss = sum(...); loss.backward()
TrainBackward ==
    /\ train_pc = "backward"
    /\ ops' = Append(ops, "backward")
    /\ train_pc' = "step"
    /\ UNCHANGED <<total_images, batches, losses, loss_train, opt_steps,
                   batch_log, train_result>>
    /\ UNCHANGED notTrain

\* trainer.py:84  {key: loss_train[key] + value.item() for key, value in losses.items()}
AccumulateLast(acc, d) == [k \in DOMAIN d |-> d[k]]
Accumulate(acc, d) == [k \in DOMAIN d |-> acc[k] + d[k]]

\* trainer.py:82-87  optimizer.step(), the running totals, and the next batch
TrainStep ==
    /\ train_pc = "step"
    /\ ops' = Append(ops, "step")
    /\ opt_steps' = opt_steps + 1
    /\ loss_train' = Accumulate(loss_train, losses)
    /\ batch_log' = Append(batch_log, losses)
    /\ batches' = Tail(batches)
    /\ train_pc' = NextBatch(Tail(batches))
    /\ UNCHANGED <<total_images, losses, train_result>>
    /\ UNCHANGED notTrain

\* trainer.py:90  loss_train[key] / total_images, kept as the fraction num / den
Mean(acc, n) == [k \in DOMAIN acc |-> [num |-> acc[k], den |-> n]]

\* trainer.py:90  return {key: loss_train[key] / total_images ...}
TrainReturn ==
    /\ train_pc = "return"
    /\ total_images > 0
    /\ train_result' = Mean(loss_train, total_images)
    /\ train_pc' = "done"
    /\ UNCHANGED <<total_images, batches, losses, loss_train, ops, opt_steps,
                   batch_log>>
    /\ UNCHANGED notTrain

\* trainer.py:90  with an empty data source the division raises ZeroDivisionError
TrainReturnRaises ==
    /\ train_pc = "return"
    /\ total_images = 0
    /\ train_pc' = "error"
    /\ UNCHANGED <<total_images, batches, losses, loss_train, ops, opt_steps,
                   batch_log, train_result>>
    /\ UNCHANGED notTrain

TrainNext ==
    \/ TrainCall
    \/ TrainZeroGrad
    \/ TrainForward
    \/ TrainBackward
    \/ TrainStep
    \/ TrainReturn
    \/ TrainReturnRaises


(***************************************************************************)
(* CocoDatasetInstanceSegmentation and SupervisedTrainer.coco_eval         *)
(*                                                                         *)
(* An image record is modelled by its id.  COCOAnnotations (from_dict,     *)
(* add_annotation_instance) and to_dict are not among the source files:    *)
(* from_dict gives a store of its own over the same images, and            *)
(* add_annotation_instance appends unless the id is already in the store.  *)
(***************************************************************************)
\* Image-id lists of annotation files: distinct ids, in any order, with or without gaps.
RECURSIVE DistinctSeqs(_, _)
DistinctSeqs(S, n) ==
    IF n = 0 THEN {<<>>}
    ELSE LET shorter == DistinctSeqs(S, n - 1)
         IN  shorter \cup
             {Append(p[1], p[2]) :
                 p \in {q \in shorter \X S : Len(q[1]) = n - 1 /\ q[2] \notin Range(q[1])}}

CocoInit ==
    /\ seg_pc = "unloaded"
    /\ seg_images = <<>>
    /\ seg_annotated = {}
    /\ coco_pc = "idle"
    /\ sample_ix = 0
    /\ pending = <<>>
    /\ annotation_id = 0
    /\ pred_annotations = <<>>
    /\ infer_log = <<>>
    /\ pred_log = <<>>

\* dataset_coco.py:165-173  the dataset is constructed from an annotation file
SegPostInit ==
    /\ seg_pc = "unloaded"
    /\ \E ids \in DistinctSeqs(1..MaxImageId, MaxSegImages) :
       \E annotated \in SUBSET Range(ids) :
        /\ seg_images' = ids
        /\ seg_annotated' = annotated
    /\ seg_pc' = "loaded"
    /\ UNCHANGED <<coco_pc, sample_ix, pending, annotation_id, pred_annotations,
                   infer_log, pred_log>>
    /\ UNCHANGED notCoco

\* Python's list indexing: s[i] with i counted from 0, a negative i from the end.
PyIndexInRange(s, i) == 0 - Len(s) <= i /\ i < Len(s)
PyIndex(s, i) == IF i < 0 THEN s[Len(s) + i + 1] ELSE s[i + 1]

\* trainer.py:155  the dataset index coco_eval asks for, given the record's image id
DatasetIndexOf(image_id) == image_id - 1

\* trainer.py:153  for sample in pred_annotations.data["images"]: after position i
NextSample(i) == IF i < Len(seg_images) THEN "fetch" ELSE "done"

\* trainer.py:143-151  coco_eval is called: the stores are built, the counter is set
CocoEvalCall ==
    /\ seg_pc = "loaded"
    /\ coco_pc \in {"idle", "done", "index_error", "key_error", "duplicate_id_error"}
    /\ pred_annotations' = <<>>
    /\ annotation_id' = 1
    /\ sample_ix' = 1
    /\ pending' = <<>>
    /\ infer_log' = <<>>
    /\ pred_log' = <<>>
    /\ coco_pc' = NextSample(0)
    /\ UNCHANGED <<seg_pc, seg_images, seg_annotated>>
    /\ UNCHANGED notCoco

\* The predictions the model returns for one image: per instance, whether its
\* mask has any foreground.
Predictions == UNION {[1..n -> BOOLEAN] : n \in 0..MaxPreds}

\* trainer.py:154-157 and dataset_coco.py:175-177  dataset.dataset[image_id - 1],
\* then the inference on the image it returned
CocoEvalFetch ==
    /\ coco_pc = "fetch"
    /\ LET image_id == seg_images[sample_ix]
           idx == DatasetIndexOf(image_id)
       IN  IF ~PyIndexInRange(seg_images, idx)
           THEN /\ coco_pc' = "index_error"
                /\ UNCHANGED <<pending, infer_log>>
           ELSE IF PyIndex(seg_images, idx) \notin seg_annotated
           THEN /\ coco_pc' = "key_error"
                /\ UNCHANGED <<pending, infer_log>>
           ELSE /\ \E pred \in Predictions : pending' = pred
                /\ infer_log' = Append(infer_log,
                                       [record |-> image_id,
                                        fetched |-> PyIndex(seg_images, idx)])
                /\ coco_pc' = "predict"
    /\ UNCHANGED <<seg_pc, seg_images, seg_annotated, sample_ix, annotation_id,
                   pred_annotations, pred_log>>
    /\ UNCHANGED notCoco

\* trainer.py:163  if mask.sum() == 0: continue
SkipsNothing(foreground) == FALSE
SkipsPrediction(foreground) == ~foreground

\* add_annotation_instance of the predictions store: DuplicateIdError when the
\* id is in the store, and the new annotation appended otherwise
HasAnnotationId(store, id) == \E i \in DOMAIN store : store[i].id = id
AddAnnotationInstance(store, id, image_id) ==
    Append(store, [id |-> id, image_id |-> image_id])

\* trainer.py:178  annotation_id += 1
NextAnnotationId(id) == id + 1

\* trainer.py:159-178  one prediction of the current image
CocoEvalPrediction ==
    /\ coco_pc = "predict"
    /\ pending # <<>>
    /\ pending' = Tail(pending)
    /\ pred_log' = Append(pred_log, Head(pending))
    /\ IF SkipsPrediction(Head(pending))
       THEN UNCHANGED <<pred_annotations, annotation_id, coco_pc>>
       ELSE IF HasAnnotationId(pred_annotations, annotation_id)
       THEN /\ coco_pc' = "duplicate_id_error"
            /\ UNCHANGED <<pred_annotations, annotation_id>>
       ELSE /\ pred_annotations' = AddAnnotationInstance(pred_annotations, annotation_id,
                                                         seg_images[sample_ix])
            /\ annotation_id' = NextAnnotationId(annotation_id)
            /\ UNCHANGED coco_pc
    /\ UNCHANGED <<seg_pc, seg_images, seg_annotated, sample_ix, infer_log>>
    /\ UNCHANGED notCoco

\* trainer.py:180-195  the image is done: the next one, or the evaluator
CocoEvalNextSample ==
    /\ coco_pc = "predict"
    /\ pending = <<>>
    /\ coco_pc' = NextSample(sample_ix)
    /\ sample_ix' = IF sample_ix < Len(seg_images) THEN sample_ix + 1 ELSE sample_ix
    /\ UNCHANGED <<seg_pc, seg_images, seg_annotated, pending, annotation_id,
                   pred_annotations, infer_log, pred_log>>
    /\ UNCHANGED notCoco

CocoNext ==
    \/ SegPostInit
    \/ CocoEvalCall
    \/ CocoEvalFetch
    \/ CocoEvalPrediction
    \/ CocoEvalNextSample

(***************************************************************************)
(* CocoDatasetClassification and CocoDataset.split                         *)
(*                                                                         *)
(* Image and annotation records are objects: the heap maps a reference to  *)
(* the record's value, and a list or a mapping of the dataset holds        *)
(* references.  A reference names the dataset that created the record      *)
(* (own: 0 is the source, j is the deep copy made for the j-th subset),    *)
(* the kind of record and its position in the annotation file.             *)
(*                                                                         *)
(* A percentage is a multiple of 1 / PercDen, kept as its numerator; with  *)
(* PercDen a power of two the floating-point sum and products of the code  *)
(* are exact.                                                              *)
(***************************************************************************)
ImageRef(own, i) == [own |-> own, kind |-> "image", ix |-> i]
AnnotationRef(own, i) == [own |-> own, kind |-> "annotation", ix |-> i]

\* to_dict(records, key): the records grouped by record[key]; the keys are in
\* the order of their first record, each group in the order of the list.
ToDict(list, key, h) ==
    LET Keys[i \in 0..Len(list)] ==
            IF i = 0 THEN <<>>
            ELSE IF h[list[i]][key] \in Range(Keys[i - 1]) THEN Keys[i - 1]
            ELSE Append(Keys[i - 1], h[list[i]][key])
        keys == Keys[Len(list)]
    IN  [keys |-> keys,
         groups |-> [k \in Range(keys) |->
                        SelectSeq(list, LAMBDA r : h[r][key] = k)]]

SplitInit ==
    /\ cls_pc = "unloaded"
    /\ heap = <<>>
    /\ src = <<>>
    /\ subsets = <<>>
    /\ percentages = <<>>
    /\ random = FALSE
    /\ order = <<>>
    /\ selected = <<>>
    /\ src_view0 = <<>>
    /\ sub_view0 = <<>>
    /\ mutated = {}

\* The annotation files: n images with the ids 1..n, and annotations that each
\* name one of the images (the k-th annotation has the id k).
AnnotationLists(n) == UNION {[1..m -> 1..n] : m \in 0..MaxAnns}

\* The records of an annotation file, as the heap of the dataset built from it.
FileHeap(n, anns) ==
    [r \in {ImageRef(0, i) : i \in 1..n} \cup {AnnotationRef(0, k) : k \in 1..Len(anns)} |->
        IF r.kind = "image"
        THEN [id |-> r.ix, file_name |-> 0]
        ELSE [id |-> r.ix, image_id |-> anns[r.ix], category_id |-> 0]]

\* The contents of a dataset: its collections with every reference replaced by
\* the record it names.
View(ds, h) ==
    [tree_images |-> [i \in DOMAIN ds.tree_images |-> h[ds.tree_images[i]]],
     tree_annotations |-> [i \in DOMAIN ds.tree_annotations |-> h[ds.tree_annotations[i]]],
     images |-> [keys |-> ds.images.keys,
                 groups |-> [k \in DOMAIN ds.images.groups |->
                                [i \in DOMAIN ds.images.groups[k] |-> h[ds.images.groups[k][i]]]]],
     annotations |-> [i \in DOMAIN ds.annotations |-> h[ds.annotations[i]]]]

\* The records a dataset holds.
RefsOf(ds) ==
    Range(ds.tree_images) \cup Range(ds.tree_annotations) \cup Range(ds.annotations)
    \cup UNION {Range(ds.images.groups[k]) : k \in DOMAIN ds.images.groups}

\* dataset_coco.py:38 and 117-125  the dataset is constructed from an annotation file
ClsPostInit ==
    /\ cls_pc = "unloaded"
    /\ \E n \in 0..MaxImages :
       \E anns \in AnnotationLists(n) :
        LET h == FileHeap(n, anns)
            tree_images == [i \in 1..n |-> ImageRef(0, i)]
            tree_annotations == [k \in 1..Len(anns) |-> AnnotationRef(0, k)]
        IN  /\ heap' = h
            /\ src' = [tree_images |-> tree_images,
                       tree_annotations |-> tree_annotations,
                       images |-> ToDict(tree_images, "id", h),
                       annotations |-> tree_annotations]
    /\ cls_pc' = "loaded"
    /\ UNCHANGED <<subsets, percentages, random, order, selected, src_view0,
                   sub_view0, mutated>>
    /\ UNCHANGED notSplit

\* Python's slices s[:n] and s[n:], a negative n counted from the end.
PySliceBound(s, n) ==
    IF n < 0 THEN (IF Len(s) + n < 0 THEN 0 ELSE Len(s) + n)
    ELSE IF n > Len(s) THEN Len(s) ELSE n
PySliceTo(s, n) == SubSeq(s, 1, PySliceBound(s, n))
PySliceFrom(s, n) == SubSeq(s, PySliceBound(s, n) + 1, Len(s))

\* int(x) of x = a / b with b > 0: the fraction is cut off towards zero.
PyInt(a, b) == IF a >= 0 THEN a \div b ELSE 0 - ((0 - a) \div b)

\* dataset_coco.py:65  assert np.sum([*percentages]) == 1
SumIsOne(percs) == SumSeq(percs) = PercDen

\* dataset_coco.py:70  [int(total_images * perc) for perc in percentages]
SubsetSizes(total, percs) == [i \in DOMAIN percs |-> PyInt(total * percs[i], PercDen)]

\* dataset_coco.py:73  np.random.shuffle(all_images): any order of the same ids
Shuffles(s) == {q \in DistinctSeqs(Range(s), Len(s)) : Len(q) = Len(s)}
Orders(s, rnd) == IF rnd THEN Shuffles(s) ELSE {s}

\* dataset_coco.py:76  deepcopy(self): every record of the source is copied for
\* the j-th subset, and the copy's collections hold the copies.
CopyRef(r, j) == [r EXCEPT !.own = j]
CopySeq(q, j) == [i \in DOMAIN q |-> CopyRef(q[i], j)]
DeepCopyHeap(ds, h, j) ==
    [r \in DOMAIN h \cup {CopyRef(x, j) : x \in RefsOf(ds)} |->
        IF r \in DOMAIN h THEN h[r] ELSE h[[r EXCEPT !.own = 0]]]
DeepCopy(ds, j) ==
    [tree_images |-> CopySeq(ds.tree_images, j),
     tree_annotations |-> CopySeq(ds.tree_annotations, j),
     images |-> [keys |-> ds.images.keys,
                 groups |-> [k \in DOMAIN ds.images.groups |-> CopySeq(ds.images.groups[k], j)]],
     annotations |-> CopySeq(ds.annotations, j)]

\* dataset_coco.py:79 and 83  self.images[i][0], image_annotations[image_id][0]
LastOfGroup(group) == group[Len(group)]
FirstOfGroup(group) == group[1]

\* dataset_coco.py:79  [self.images[i][0] for i in indexes]
SubsetImages(ds, indexes) ==
    [i \in DOMAIN indexes |-> FirstOfGroup(ds.images.groups[indexes[i]])]

\* dataset_coco.py:82-83  the image ids of the subset that no annotation names:
\* image_annotations[image_id] raises KeyError for them
Unannotated(images, image_annotations) ==
    {k \in Range(images.keys) : k \notin DOMAIN image_annotations.groups}

\* dataset_coco.py:76-85  the j-th subset over the image ids indexes
BuildSubset(ds, h, j, indexes) ==
    LET h1 == DeepCopyHeap(ds, h, j)
        subset == DeepCopy(ds, j)
        tree_images == SubsetImages(ds, indexes)
        images == ToDict(tree_images, "id", h1)
        image_annotations == ToDict(subset.tree_annotations, "image_id", h1)
        key_error == Unannotated(images, image_annotations) # {}
        tree_annotations ==
            IF key_error THEN <<>>
            ELSE [i \in DOMAIN images.keys |->
                    FirstOfGroup(image_annotations.groups[images.keys[i]])]
    IN  [heap |-> h1,
         key_error |-> key_error,
         subset |-> [tree_images |-> tree_images,
                     tree_annotations |-> tree_annotations,
                     images |-> images,
                     annotations |-> tree_annotations]]

\* dataset_coco.py:75-88  the loop over subset_sizes, from the j-th subset on
RECURSIVE SplitLoop(_, _, _, _, _)
SplitLoop(ds, sizes, j, all_images, acc) ==
    IF j > Len(sizes) \/ acc.key_error THEN acc
    ELSE LET indexes == PySliceTo(all_images, sizes[j])
             built == BuildSubset(ds, acc.heap, j, indexes)
         IN  SplitLoop(ds, sizes, j + 1, PySliceFrom(all_images, sizes[j]),
                       [heap |-> built.heap,
                        key_error |-> built.key_error,
                        subsets |-> Append(acc.subsets, built.subset),
                        selected |-> Append(acc.selected, indexes)])

PercentageTuples ==
    UNION {[1..m -> (0 - PercSlack)..(PercDen + PercSlack)] : m \in 1..MaxParts}

\* dataset_coco.py:54-90  split(*percentages, random=...)
Split ==
    /\ cls_pc = "loaded"
    /\ \E percs \in PercentageTuples, rnd \in BOOLEAN :
        /\ percentages' = percs
        /\ random' = rnd
        /\ src_view0' = View(src, heap)
        /\ IF ~SumIsOne(percs)
           THEN /\ cls_pc' = "assertion_error"
                /\ UNCHANGED <<heap, subsets, order, selected, sub_view0>>
           ELSE \E all_images \in Orders(src.images.keys, rnd) :
                LET out == SplitLoop(src, SubsetSizes(Len(all_images), percs), 1,
                                     all_images,
                                     [heap |-> heap, key_error |-> FALSE,
                                      subsets |-> <<>>, selected |-> <<>>])
                IN  /\ order' = all_images
                    /\ IF out.key_error
                       THEN /\ cls_pc' = "key_error"
                            /\ UNCHANGED <<heap, subsets, selected, sub_view0>>
                       ELSE /\ cls_pc' = "returned"
                            /\ heap' = out.heap
                            /\ subsets' = out.subsets
                            /\ selected' = out.selected
                            /\ sub_view0' = [j \in DOMAIN out.subsets |->
                                                View(out.subsets[j], out.heap)]
    /\ UNCHANGED <<src, mutated>>
    /\ UNCHANGED notSplit

\* The caller's handle on the datasets after split: 0 is the source.
Dataset(j) == IF j = 0 THEN src ELSE subsets[j]

\* A record written by the caller: an image's file_name or an annotation's category_id.
Written(rec) ==
    IF "file_name" \in DOMAIN rec THEN [rec EXCEPT !.file_name = 1]
    ELSE [rec EXCEPT !.category_id = 1]

\* After split the caller writes a field of a record it reaches through dataset j.
MutateRecord ==
    /\ cls_pc = "returned"
    /\ Cardinality(mutated) < MaxMutations
    /\ \E j \in 0..Len(subsets) :
       \E r \in RefsOf(Dataset(j)) :
        /\ heap' = [heap EXCEPT ![r] = Written(heap[r])]
        /\ mutated' = mutated \cup {j}
    /\ UNCHANGED <<cls_pc, src, subsets, percentages, random, order, selected,
                   src_view0, sub_view0>>
    /\ UNCHANGED notSplit

SplitNext ==
    \/ ClsPostInit
    \/ Split
    \/ MutateRecord

(***************************************************************************)
(* Specifications.                                                         *)
(***************************************************************************)
Init == FitInit /\ TrainInit /\ CocoInit /\ SplitInit

SpecFit == Init /\ [][FitNext]_vars

SpecTrain == Init /\ [][TrainNext]_vars

SpecCoco == Init /\ [][CocoNext]_vars

SpecSplit == Init /\ [][SplitNext]_vars

(***************************************************************************)
(* Properties of SupervisedTrainer.fit (SpecFit).                          *)
(***************************************************************************)
\* The best value on record before the k-th tracked value was compared.
BestBefore(k) == SetMin({InitialBestLoss} \cup {tracked[i] : i \in 1..(k - 1)})

\* The epochs of the running fit call whose checkpoint comparison is done.
ComparedEpochs == 0..(Len(tracked) - fit_start - 1)

DueEpochs(n) == {e \in 0..(n - 1) : \E f \in freq : f > 0 /\ e % f = 0}

\* The epochs of the running fit call that are past the COCO-evaluation phase.
EpochsPastCoco ==
    IF fit_pc = "done" THEN 0..(epochs - 1)
    ELSE IF fit_pc = "checkpoint" THEN 0..epoch
    ELSE 0..(epoch - 1)

\* The epoch the recorded phases belong to.
PhaseEpoch == IF fit_pc = "train" /\ phases # <<>> THEN epoch - 1 ELSE epoch

IsPrefix(p, q) == Len(p) <= Len(q) /\ SubSeq(q, 1, Len(p)) = p

\* C6: the COCO evaluation runs at exactly the epochs e with e mod frequency = 0
\* (0, 2, 4 for frequency 2 over 5 epochs), after the epoch's train and evaluate
\* phases and before its checkpoint comparison, and never without a frequency.
C6_CocoEvalSchedule ==
    /\ coco_epochs \subseteq DueEpochs(epochs)
    /\ EpochsPastCoco \cap DueEpochs(epochs) \subseteq coco_epochs
    /\ freq = {} => coco_epochs = {}
    /\ (fit_pc = "done" /\ epochs = 5 /\ freq = {2}) => coco_epochs = {0, 2, 4}
    /\ \/ IsPrefix(phases, <<"train", "evaluate", "coco_eval", "checkpoint">>)
       \/ IsPrefix(phases, <<"train", "evaluate", "checkpoint">>)
    /\ "coco_eval" \in Range(phases) => PhaseEpoch \in DueEpochs(epochs)
    /\ "checkpoint" \in Range(phases) =>
            ("coco_eval" \in Range(phases) <=> PhaseEpoch \in DueEpochs(epochs))

\* C6 witness: a fit of 5 epochs with frequency 2 has ended.
C6_Witness ==
    /\ fit_pc = "done"
    /\ epochs = 5
    /\ freq = {2}
    /\ coco_epochs = {0, 2, 4}
    /\ phases = <<"train", "evaluate", "coco_eval", "checkpoint">>

(***************************************************************************)
(* Properties of SupervisedTrainer.train (SpecTrain).                      *)
(***************************************************************************)
BatchOps == <<"zero_grad", "model", "backward", "step">>

C8_PredictionIds ==
    /\ [](/\ Len(pred_annotations) = Cardinality({i \in DOMAIN pred_log : pred_log[i]})
          /\ \A k \in DOMAIN pred_annotations : pred_annotations[k].id = k
          /\ coco_pc # "duplicate_id_error")
    /\ [][pred_log' # <<>> => IsPrefix(pred_annotations, pred_annotations')]_vars

\* C8 witness: a run has ended with annotations recorded and a mask skipped.
C8_Witness ==
    /\ coco_pc = "done"
    /\ Len(pred_annotations) >= 3
    /\ \E i \in DOMAIN pred_log : ~pred_log[i]

\* C10: coco_eval visits every image record of the store once and runs the
\* inference on the image of that record, never on another image and never
\* with an index out of range.
C10_InferenceOnTheRecordsImage ==
    /\ coco_pc # "index_error"
    /\ \A i \in DOMAIN infer_log : infer_log[i].fetched = infer_log[i].record
    /\ coco_pc = "done" => [i \in DOMAIN infer_log |-> infer_log[i].record] = seg_images

\* C10, for a store whose image ids are 1..N in the order of the list: the
\* same statement holds.
C10_HoldsForIdsInPosition ==
    seg_images = [i \in DOMAIN seg_images |-> i] => C10_InferenceOnTheRecordsImage

(***************************************************************************)
(* Properties of CocoDataset.split (SpecSplit).                            *)
(***************************************************************************)
SplitCalled == cls_pc \in {"returned", "assertion_error", "key_error"}

\* The image ids of a subset, in the order of its store.
ImageIds(ds) == [i \in DOMAIN ds.tree_images |-> heap[ds.tree_images[i]].id]

\* floor(total_images * p) for the percentage p = num / PercDen.  For a negative
\* percentage the count is rounded towards zero, as int() rounds it in the code:
\* of the readings of the claim this is the one closest to the code.
FloorCount(num) ==
    IF num >= 0 THEN (Len(src.images.keys) * num) \div PercDen
    ELSE 0 - ((Len(src.images.keys) * (0 - num)) \div PercDen)

\* C1: for percentages that sum to 1, split returns one subset per percentage,
\* the image-id sets of the subsets are pairwise disjoint, and their union has
\* sum of floor(total_images * p_i) image ids.
C1_DisjointSubsetsOfFloorSize ==
    (cls_pc = "returned" /\ SumSeq(percentages) = PercDen) =>
        /\ Len(subsets) = Len(percentages)
        /\ \A j, k \in DOMAIN subsets :
                j # k => Range(ImageIds(subsets[j])) \cap Range(ImageIds(subsets[k])) = {}
        /\ Cardinality(UNION {Range(ImageIds(subsets[j])) : j \in DOMAIN subsets})
                = SumSeq([i \in DOMAIN percentages |-> FloorCount(percentages[i])])

\* C1, for percentages that are also non-negative: the same statement holds.
C1_HoldsForNonNegativePercentages ==
    (\A i \in DOMAIN percentages : percentages[i] >= 0) => C1_DisjointSubsetsOfFloorSize

\* The sum of floor(total_images * p_i) over the percentages before the j-th.
BlockStart(j) == SumSeq([i \in 1..(j - 1) |-> FloorCount(percentages[i])])

\* C2: in every returned subset each annotation names an image of that subset;
\* with random=False the i-th subset holds the i-th consecutive block of
\* floor(total_images * p_i) image ids of the source order.
C2_OwnImagesAndBlocks ==
    cls_pc = "returned" =>
        \A j \in DOMAIN subsets :
            /\ \A i \in DOMAIN subsets[j].tree_annotations :
                    heap[subsets[j].tree_annotations[i]].image_id
                        \in Range(ImageIds(subsets[j]))
            /\ ~random =>
                /\ Len(subsets[j].tree_images) = FloorCount(percentages[j])
                /\ BlockStart(j) >= 0
                /\ BlockStart(j) + FloorCount(percentages[j]) <= Len(src.images.keys)
                /\ ImageIds(subsets[j]) =
                        SubSeq(src.images.keys, BlockStart(j) + 1,
                               BlockStart(j) + FloorCount(percentages[j]))

\* C2, for percentages that are non-negative: the same statement holds.
C2_HoldsForNonNegativePercentages ==
    (\A i \in DOMAIN percentages : percentages[i] >= 0) => C2_OwnImagesAndBlocks

\* The contents of dataset k (0: the source) when split returned.
ViewAtReturn(k) == IF k = 0 THEN src_view0 ELSE sub_view0[k]

\* C3: split leaves the source unchanged, and after split a record mutated
\* through one subset leaves the source and the other subsets unchanged.
C3_SubsetsAreIndependent ==
    cls_pc = "returned" =>
        /\ mutated = {} => View(src, heap) = src_view0
        /\ \A j \in DOMAIN subsets :
                mutated = {j} =>
                    \A k \in 0..Len(subsets) :
                        k # j => View(Dataset(k), heap) = ViewAtReturn(k)

\* C4: split fails and returns no subsets when a percentage is negative or the
\* percentages do not sum to 1.
C4_InvalidPercentagesRejected ==
    (/\ SplitCalled
     /\ \/ \E i \in DOMAIN percentages : percentages[i] < 0
        \/ SumSeq(percentages) # PercDen)
        => cls_pc # "returned" /\ subsets = <<>>

\* The position in the source of the first annotation that names the image.
FirstAnnotationOf(image_id) ==
    CHOOSE k \in DOMAIN src.tree_annotations :
        /\ heap[src.tree_annotations[k]].image_id = image_id
        /\ \A m \in 1..(k - 1) : heap[src.tree_annotations[m]].image_id # image_id

\* C9: every subset's store holds exactly the selected images and, for each of
\* them, exactly one annotation: the first annotation of that image in the
\* source's annotation order.
C9_OneFirstAnnotationPerImage ==
    cls_pc = "returned" =>
        \A j \in DOMAIN subsets :
            LET ds == subsets[j]
            IN  /\ ImageIds(ds) = selected[j]
                /\ ds.images.keys = selected[j]
                /\ \A i \in DOMAIN selected[j] :
                        ds.images.groups[selected[j][i]] = <<ds.tree_images[i]>>
                /\ Len(ds.tree_annotations) = Len(ds.tree_images)
                /\ ds.annotations = ds.tree_annotations
                /\ \A i \in DOMAIN ds.tree_annotations :
                    LET a == heap[ds.tree_annotations[i]]
                    IN  /\ a.image_id = selected[j][i]
                        /\ a.id = heap[src.tree_annotations[FirstAnnotationOf(a.image_id)]].id

\* C9 witness: a subset holds an image that has two annotations in the source,
\* the first of them after an annotation of another image.
C9_Witness ==
    /\ cls_pc = "returned"
    /\ \E j \in DOMAIN subsets :
       \E i \in DOMAIN selected[j] :
        /\ Cardinality({k \in DOMAIN src.tree_annotations :
                heap[src.tree_annotations[k]].image_id = selected[j][i]}) = 2
        /\ FirstAnnotationOf(selected[j][i]) = 2
        /\ Len(selected[j]) = 2

====
